---- MODULE Spec2Model ----
(***************************************************************************)
(* A model of sudoku.py: the grid validator, the backtracking solver, the  *)
(* uniqueness search, the puzzle generator and the game session (cell      *)
(* grid, move counter, undo stack, hint) driven by the key handlers of     *)
(* Game.game_loop.  Rows and columns are numbered 0..8 as in the source.   *)
(***************************************************************************)
EXTENDS Integers, Sequences, FiniteSets, TLC

\* ------------------------------------------------------------------------
\* Bounds of the model (inputs the model explores), not program constants
\* ------------------------------------------------------------------------

\* seeds 0..MaxSeed stand for the outcomes of random.sample explored
MaxSeed == 1
\* committed edits explored per game in the session specification
MaxMoves == 2
\* committed edits explored in the deep-undo specification beyond UndoCap
DeepExtra == 5

\* ------------------------------------------------------------------------
\* Grids of digits
\* ------------------------------------------------------------------------

N9 == 9
Idx == 0..(N9 - 1)
CellIdx == 0..(N9 * N9 - 1)
RowOf(k) == k \div N9
ColOf(k) == k % N9

\* [[0]*9 for _ in range(9)]
EmptyGrid == [r \in Idx |-> [c \in Idx |-> 0]]

\* variant of valid that does not scan the column
valid_no_column(grid, r, c, n) ==
    /\ \A i \in Idx : grid[r][i] # n
    /\ LET br == 3 * (r \div 3)
           bc == 3 * (c \div 3)
       IN  \A i \in 0..2 : \A j \in 0..2 : grid[br + i][bc + j] # n

\* valid(grid, r, c, n): n occurs neither in row r, nor in column c, nor in
\* the 3x3 box of (r, c); the scans include the cell (r, c) itself.
valid(grid, r, c, n) ==
    /\ \A i \in Idx : ~(grid[r][i] = n \/ grid[i][c] = n)
    /\ LET br == 3 * (r \div 3)
           bc == 3 * (c \div 3)
       IN  \A i \in 0..2 : \A j \in 0..2 : grid[br + i][bc + j] # n

\* the loops "for r in range(9): for c in range(9): if grid[r][c] == 0"
\* taken up at cell k0: the first empty cell from k0 on in row-major order,
\* N9 * N9 when there is none
FirstEmptyFrom(grid, k0) ==
    CHOOSE k \in k0..(N9 * N9) :
        /\ k = N9 * N9 \/ grid[RowOf(k)][ColOf(k)] = 0
        /\ \A j \in k0..(k - 1) : grid[RowOf(j)][ColOf(j)] # 0
\* the whole scan, from (0, 0)
FirstEmpty(grid) == FirstEmptyFrom(grid, 0)
HasEmpty(grid) == FirstEmpty(grid) < N9 * N9
\* the scan of a call made under the open calls of stack: every cell up to
\* the one the innermost of them has just filled holds a digit, so the
\* scan comes to its first empty cell after that one
FirstEmptyUnder(grid, stack) ==
    IF stack = <<>> THEN FirstEmpty(grid)
    ELSE FirstEmptyFrom(grid, stack[Len(stack)][1] + 1)

\* random.sample(range(1,10), 9): a permutation of 1..9.  The outcomes
\* explored are the rotations of 1..9 by seed * (r + c + 1); seed 0 is the
\* ascending order.
sample(seed, r, c) ==
    [i \in 1..N9 |-> ((i - 1 + seed * (r + c + 1)) % N9) + 1]

\* "random.sample(range(1,10),9) if fill else range(1,10)"
Candidates(fill, seed, r, c) ==
    IF fill THEN sample(seed, r, c) ELSE [i \in 1..N9 |-> i]

\* "for n in ...: if valid(grid, r, c, n)": the index of the first candidate
\* from the i-th on that valid accepts, N9 + 1 when the loop runs out
RECURSIVE NextValid(_, _, _, _, _)
NextValid(grid, cands, r, c, i) ==
    IF i > N9 THEN N9 + 1
    ELSE IF valid(grid, r, c, cands[i]) THEN i
    ELSE NextValid(grid, cands, r, c, i + 1)

\* a run of solve or dfs is taken on by up to 2^StepsLog steps at a time
StepsLog == 9

\* solve(grid, fill): depth-first search that mutates grid in place.  The
\* recursion is followed call by call: a run holds the grid, the frames of
\* the calls that are open (each the cell k it found empty and the index i
\* of the candidate it has placed there, 0 before the first), and where the
\* run stands: "enter" at the start of a call, "next" when the innermost
\* loop goes to its next candidate, "true" or "false" once the outermost
\* call has returned.
SolveRun(grid, fill, seed, stack, at) ==
    [grid |-> grid, fill |-> fill, seed |-> seed, stack |-> stack, at |-> at]

\* the frame of the innermost open call, and the frames below it
TopFrame(m) == m.stack[Len(m.stack)]
PopFrame(m) == SubSeq(m.stack, 1, Len(m.stack) - 1)

\* variant of SolveStep that places its next candidate without asking valid
SolveStep_unchecked(m) ==
    IF m.at = "enter"
    THEN LET k == FirstEmptyUnder(m.grid, m.stack)
         IN  IF k = N9 * N9
             THEN SolveRun(m.grid, m.fill, m.seed, <<>>, "true")
             ELSE SolveRun(m.grid, m.fill, m.seed,
                           Append(m.stack, <<k, 0>>), "next")
    ELSE IF m.at = "next"
    THEN LET k == TopFrame(m)[1]
             r == RowOf(k)
             c == ColOf(k)
             cands == Candidates(m.fill, m.seed, r, c)
             j == TopFrame(m)[2] + 1
         IN  IF j <= N9
             THEN SolveRun([m.grid EXCEPT ![r][c] = cands[j]], m.fill, m.seed,
                           Append(PopFrame(m), <<k, j>>), "enter")
             ELSE IF Len(m.stack) = 1
             THEN SolveRun(m.grid, m.fill, m.seed, <<>>, "false")
             ELSE LET below == PopFrame(m)
                      kk == below[Len(below)][1]
                  IN  SolveRun([m.grid EXCEPT ![RowOf(kk)][ColOf(kk)] = 0],
                               m.fill, m.seed, below, "next")
    ELSE m

\* variant of SolveStep in which a caller does not reset its cell after the
\* recursive call has returned False
SolveStep_no_reset(m) ==
    IF m.at = "enter"
    THEN LET k == FirstEmptyUnder(m.grid, m.stack)
         IN  IF k = N9 * N9
             THEN SolveRun(m.grid, m.fill, m.seed, <<>>, "true")
             ELSE SolveRun(m.grid, m.fill, m.seed,
                           Append(m.stack, <<k, 0>>), "next")
    ELSE IF m.at = "next"
    THEN LET k == TopFrame(m)[1]
             r == RowOf(k)
             c == ColOf(k)
             cands == Candidates(m.fill, m.seed, r, c)
             j == NextValid(m.grid, cands, r, c, TopFrame(m)[2] + 1)
         IN  IF j <= N9
             THEN SolveRun([m.grid EXCEPT ![r][c] = cands[j]], m.fill, m.seed,
                           Append(PopFrame(m), <<k, j>>), "enter")
             ELSE IF Len(m.stack) = 1
             THEN SolveRun(m.grid, m.fill, m.seed, <<>>, "false")
             ELSE SolveRun(m.grid, m.fill, m.seed, PopFrame(m), "next")
    ELSE m

\* one step of a run of solve.  "enter": with no empty cell the call
\* returns True, and so does every open call ("if solve(grid, fill): return
\* True"); otherwise the call opens its loop at the first empty cell.
\* "next": the innermost loop places its next valid candidate and calls
\* solve; when it has none left the call returns False, and its caller, if
\* there is one, resets its own cell and goes on with its loop.
SolveStep(m) ==
    IF m.at = "enter"
    THEN LET k == FirstEmptyUnder(m.grid, m.stack)
         IN  IF k = N9 * N9
             THEN SolveRun(m.grid, m.fill, m.seed, <<>>, "true")
             ELSE SolveRun(m.grid, m.fill, m.seed,
                           Append(m.stack, <<k, 0>>), "next")
    ELSE IF m.at = "next"
    THEN LET k == TopFrame(m)[1]
             r == RowOf(k)
             c == ColOf(k)
             cands == Candidates(m.fill, m.seed, r, c)
             j == NextValid(m.grid, cands, r, c, TopFrame(m)[2] + 1)
         IN  IF j <= N9
             THEN SolveRun([m.grid EXCEPT ![r][c] = cands[j]], m.fill, m.seed,
                           Append(PopFrame(m), <<k, j>>), "enter")
             ELSE IF Len(m.stack) = 1
             THEN SolveRun(m.grid, m.fill, m.seed, <<>>, "false")
             ELSE LET below == PopFrame(m)
                      kk == below[Len(below)][1]
                  IN  SolveRun([m.grid EXCEPT ![RowOf(kk)][ColOf(kk)] = 0],
                               m.fill, m.seed, below, "next")
    ELSE m

\* a run has ended when the outermost call has returned
Ended(m) == m.at \in {"true", "false"}

\* a run taken on by up to 2^n steps, or to its end if that comes first
RECURSIVE SolveSteps(_, _)
SolveSteps(m, n) ==
    IF n = 0 THEN SolveStep(m)
    ELSE LET half == SolveSteps(m, n - 1)
         IN  IF Ended(half) THEN half ELSE SolveSteps(half, n - 1)

\* a run taken to its end, by up to 2^n steps at a time
RECURSIVE SolveToEnd(_, _)
SolveToEnd(m, n) ==
    LET m2 == SolveSteps(m, n)
    IN  IF Ended(m2) THEN m2 ELSE SolveToEnd(m2, n)

\* the return value of solve and the grid as the call leaves it
solve(grid, fill, seed) ==
    LET m == SolveToEnd(SolveRun(grid, fill, seed, <<>>, "enter"), StepsLog)
    IN  [ok |-> m.at = "true", grid |-> m.grid]

\* unique_solution(grid): dfs enumerates every completion, counting them in
\* solutions[0]; no early exit.  The recursion is followed call by call as
\* for solve: a run holds the grid, the count, the frames of the open calls
\* and where it stands: "enter" at the start of a call, "next" when the
\* innermost loop goes to its next candidate, "done" once the outermost
\* call has returned.
DfsRun(grid, solutions, stack, at) ==
    [grid |-> grid, solutions |-> solutions, stack |-> stack, at |-> at]

\* a call of dfs returns, callers being the frames of the calls still
\* open: the innermost of them resets its cell ("dfs(); grid[r][c] = 0")
\* and goes on with its loop
DfsReturn(grid, solutions, callers) ==
    IF callers = <<>> THEN DfsRun(grid, solutions, <<>>, "done")
    ELSE LET kk == callers[Len(callers)][1]
         IN  DfsRun([grid EXCEPT ![RowOf(kk)][ColOf(kk)] = 0], solutions,
                    callers, "next")

\* variant of DfsStep whose loop ends after the first candidate valid
\* accepts
DfsStep_first(m) ==
    IF m.at = "enter"
    THEN LET k == FirstEmptyUnder(m.grid, m.stack)
         IN  IF k = N9 * N9
             THEN DfsReturn(m.grid, m.solutions + 1, m.stack)
             ELSE DfsRun(m.grid, m.solutions, Append(m.stack, <<k, 0>>),
                         "next")
    ELSE IF m.at = "next"
    THEN LET k == TopFrame(m)[1]
             r == RowOf(k)
             c == ColOf(k)
             cands == Candidates(FALSE, 0, r, c)
             j == IF TopFrame(m)[2] > 0 THEN N9 + 1
                  ELSE NextValid(m.grid, cands, r, c, 1)
         IN  IF j <= N9
             THEN DfsRun([m.grid EXCEPT ![r][c] = cands[j]], m.solutions,
                         Append(PopFrame(m), <<k, j>>), "enter")
             ELSE DfsReturn(m.grid, m.solutions, PopFrame(m))
    ELSE m

\* one step of a run of dfs.  "enter": with no empty cell the call counts a
\* solution and returns; otherwise it opens its loop at the first empty
\* cell.  "next": the innermost loop places its next valid candidate and
\* calls dfs; when it has none left the call returns.
DfsStep(m) ==
    IF m.at = "enter"
    THEN LET k == FirstEmptyUnder(m.grid, m.stack)
         IN  IF k = N9 * N9
             THEN DfsReturn(m.grid, m.solutions + 1, m.stack)
             ELSE DfsRun(m.grid, m.solutions, Append(m.stack, <<k, 0>>),
                         "next")
    ELSE IF m.at = "next"
    THEN LET k == TopFrame(m)[1]
             r == RowOf(k)
             c == ColOf(k)
             cands == Candidates(FALSE, 0, r, c)
             j == NextValid(m.grid, cands, r, c, TopFrame(m)[2] + 1)
         IN  IF j <= N9
             THEN DfsRun([m.grid EXCEPT ![r][c] = cands[j]], m.solutions,
                         Append(PopFrame(m), <<k, j>>), "enter")
             ELSE DfsReturn(m.grid, m.solutions, PopFrame(m))
    ELSE m

\* a run of dfs taken on by up to 2^n steps, or to its end
RECURSIVE DfsSteps(_, _)
DfsSteps(m, n) ==
    IF n = 0 THEN DfsStep(m)
    ELSE LET half == DfsSteps(m, n - 1)
         IN  IF half.at = "done" THEN half ELSE DfsSteps(half, n - 1)

\* a run of dfs taken to its end, by up to 2^n steps at a time
RECURSIVE DfsToEnd(_, _)
DfsToEnd(m, n) ==
    LET m2 == DfsSteps(m, n)
    IN  IF m2.at = "done" THEN m2 ELSE DfsToEnd(m2, n)

\* the outermost call "dfs()": the count and the grid as it leaves them
dfs(grid) ==
    LET m == DfsToEnd(DfsRun(grid, 0, <<>>, "enter"), StepsLog)
    IN  [grid |-> m.grid, solutions |-> m.solutions]

unique_solution(grid) == dfs(grid).solutions = 1

\* ------------------------------------------------------------------------
\* Puzzle generator
\* ------------------------------------------------------------------------

\* generate_sudoku(num_clues=35): the default new_game() relies on
DefaultClues == 35

\* cells = [(r, c) for r in range(9) for c in range(9)]
RowMajor == [k \in 1..(N9 * N9) |-> <<RowOf(k - 1), ColOf(k - 1)>>]

InSeq(x, s) == \E i \in 1..Len(s) : s[i] = x
NotIn(s, x) == ~InSeq(x, s)

\* random.shuffle(cells): a permutation of the 81 coordinates.  The
\* outcomes explored put the cells of prefix first, in the order given,
\* and the other cells after them from (8, 8) back to (0, 0).
Shuffled(prefix) ==
    prefix \o SelectSeq([k \in 1..(N9 * N9) |-> RowMajor[N9 * N9 + 1 - k]],
                        LAMBDA p : NotIn(prefix, p))

\* "grid = [[0]*9 ...]; solve(grid, fill=True)": the grid that solve leaves
\* from the empty grid, tabulated per seed
FilledGrids == { <<s, solve(EmptyGrid, TRUE, s).grid>> : s \in 0..MaxSeed }
FilledGrid(seed) == (CHOOSE e \in FilledGrids : e[1] = seed)[2]

\* the removal loop of generate_sudoku, pass by pass: the grid, the index i
\* of the shuffled cell the next pass takes, and removed
RemoveRun(grid, i, removed) == [grid |-> grid, i |-> i, removed |-> removed]

\* variant of RemoveStep that counts a removal it puts back
RemoveStep_miscount(m, cells) ==
    LET r == cells[m.i][1]
        c == cells[m.i][2]
        grid2 == [m.grid EXCEPT ![r][c] = 0]
    IN  IF ~unique_solution(grid2)
        THEN RemoveRun(m.grid, m.i + 1, m.removed + 1)
        ELSE RemoveRun(grid2, m.i + 1, m.removed + 1)

\* variant of RemoveStep that keeps every removal, whatever unique_solution
\* says of the grid it leaves
RemoveStep_unchecked(m, cells) ==
    LET r == cells[m.i][1]
        c == cells[m.i][2]
    IN  RemoveRun([m.grid EXCEPT ![r][c] = 0], m.i + 1, m.removed + 1)

\* one pass of the loop body after the break test: "backup = grid[r][c];
\* grid[r][c] = 0; grid2 = copy of grid; if not unique_solution(grid2):
\* grid[r][c] = backup; else: removed += 1"
RemoveStep(m, cells) ==
    LET r == cells[m.i][1]
        c == cells[m.i][2]
        grid2 == [m.grid EXCEPT ![r][c] = 0]
    IN  IF ~unique_solution(grid2)
        THEN RemoveRun(m.grid, m.i + 1, m.removed)
        ELSE RemoveRun(grid2, m.i + 1, m.removed + 1)

\* the removal loop is taken on by up to 3^PassLog passes at a time, as
\* many as cells holds
PassLog == 4

\* the loop is over: cells is used up, or "if removed >= 81-num_clues:
\* break"
RemoveEnded(m, cells, num_clues) ==
    m.i > Len(cells) \/ m.removed >= N9 * N9 - num_clues

\* the loop taken on by up to 3^n passes, or to its end
RECURSIVE RemoveSteps(_, _, _, _)
RemoveSteps(m, cells, num_clues, n) ==
    IF RemoveEnded(m, cells, num_clues) THEN m
    ELSE IF n = 0 THEN RemoveStep(m, cells)
    ELSE LET a == RemoveSteps(m, cells, num_clues, n - 1)
         IN  IF RemoveEnded(a, cells, num_clues) THEN a
             ELSE LET b == RemoveSteps(a, cells, num_clues, n - 1)
                  IN  IF RemoveEnded(b, cells, num_clues) THEN b
                      ELSE RemoveSteps(b, cells, num_clues, n - 1)

\* the loop taken to its end, by up to 3^n passes at a time
RECURSIVE RemoveToEnd(_, _, _, _)
RemoveToEnd(m, cells, num_clues, n) ==
    LET m2 == RemoveSteps(m, cells, num_clues, n)
    IN  IF RemoveEnded(m2, cells, num_clues) THEN m2
        ELSE RemoveToEnd(m2, cells, num_clues, n)

\* the whole removal loop "for r, c in cells" run on grid: the grid and
\* removed as it leaves them
RemoveCells(grid, cells, num_clues) ==
    LET m == RemoveToEnd(RemoveRun(grid, 1, 0), cells, num_clues, PassLog)
    IN  [grid |-> m.grid, removed |-> m.removed]

\* variant of generate_sudoku whose sol is the grid the removal loop worked
\* on, not a copy taken before it
generate_sudoku_aliased(seed, cells, num_clues) ==
    LET grid == FilledGrid(seed)
        out == RemoveCells(grid, cells, num_clues)
    IN  [puzzle |-> out.grid, sol |-> out.grid]

\* generate_sudoku(num_clues) under the random outcomes (seed, cells):
\* returns (puzzle, sol)
generate_sudoku(seed, cells, num_clues) ==
    LET grid == FilledGrid(seed)
        out == RemoveCells(grid, cells, num_clues)
    IN  [puzzle |-> out.grid, sol |-> grid]

\* the number of cells the removal loop of generate_sudoku emptied
removed_count(seed, cells, num_clues) ==
    RemoveCells(FilledGrid(seed), cells, num_clues).removed

\* ------------------------------------------------------------------------
\* Session model: Cell, SudokuState, new_game, is_complete
\* ------------------------------------------------------------------------

\* Cell(value, fixed, pencil)
Cell(v, f, p) == [value |-> v, fixed |-> f, pencil |-> p]

\* SudokuState(): the dataclass defaults.  start_time only feeds the elapsed
\* time shown by UI.draw and is left out.
SudokuState ==
    [grid |-> [r \in Idx |-> [c \in Idx |-> Cell(0, FALSE, 0)]],
     puzzle |-> EmptyGrid, solution |-> EmptyGrid, moves |-> 0]

\* variant of clone that leaves moves at the default of SudokuState
clone_moves_reset(gs) ==
    [grid |-> gs.grid, puzzle |-> gs.puzzle, solution |-> gs.solution,
     moves |-> 0]

\* variant of clone that copies value and fixed and leaves pencil at the
\* default of Cell
clone_no_pencil(gs) ==
    [grid |-> [r \in Idx |-> [c \in Idx |->
                 Cell(gs.grid[r][c].value, gs.grid[r][c].fixed, 0)]],
     puzzle |-> gs.puzzle, solution |-> gs.solution, moves |-> gs.moves]

\* SudokuState.clone: a cell-by-cell copy that shares nothing with self
clone(gs) ==
    [grid |-> [r \in Idx |-> [c \in Idx |->
                 Cell(gs.grid[r][c].value, gs.grid[r][c].fixed,
                      gs.grid[r][c].pencil)]],
     puzzle |-> [r \in Idx |-> [c \in Idx |-> gs.puzzle[r][c]]],
     solution |-> [r \in Idx |-> [c \in Idx |-> gs.solution[r][c]]],
     moves |-> gs.moves]

\* the state new_game builds from what generate_sudoku returned: "gs =
\* SudokuState(); gs.grid[r][c].value = puzzle[r][c]; gs.grid[r][c].fixed =
\* puzzle[r][c] != 0; gs.puzzle = puzzle; gs.solution = sol; gs.moves = 0"
NewState(ps) ==
    [grid |-> [r \in Idx |-> [c \in Idx |->
                 Cell(ps.puzzle[r][c], ps.puzzle[r][c] # 0, 0)]],
     puzzle |-> ps.puzzle, solution |-> ps.sol, moves |-> 0]

\* new_game() under the random outcomes (seed, cells): "puzzle, sol =
\* generate_sudoku()", with the default num_clues
new_game(seed, cells) ==
    NewState(generate_sudoku(seed, cells, DefaultClues))

\* variant of is_complete that only looks for empty cells
is_complete_filled(gs) ==
    \A r \in Idx : \A c \in Idx : gs.grid[r][c].value # 0

\* is_complete(gs)
is_complete(gs) ==
    \A r \in Idx : \A c \in Idx :
        LET v == gs.grid[r][c].value
        IN  ~(v = 0 \/ v # gs.solution[r][c])

\* ------------------------------------------------------------------------
\* Inputs explored
\* ------------------------------------------------------------------------

\* what one call of new_game draws: the seed of random.sample and the
\* cells random.shuffle puts first
Draw(seed, prefix) == [seed |-> seed, prefix |-> prefix]
NoDraw == Draw(0, <<>>)

\* a draw with the game new_game returns under it
Dealt(d) == [drawn |-> d, game |-> new_game(d.seed, Shuffled(d.prefix))]

\* digit keys pressed ('1'..'9' in the source)
DigitKeys == {1, 2}
\* rows and columns the cursor is moved over
ReachRows == {0, 1}
ReachCols == {N9 - 1, 0, 1}
\* the session's games: the draws of seed 1 whose shuffle puts (0, 0) and
\* (0, 1) first, or (0, 0) alone.  Both leave 35 clues; over the rows and
\* columns the cursor is moved over, the first has (0, 0) and (0, 1) empty
\* and the second (0, 0) only.
SessionSeed == 1
SessionPrefixes == { << <<0, 0>>, <<0, 1>> >>, << <<0, 0>> >> }
Games == { Dealt(Draw(SessionSeed, p)) : p \in SessionPrefixes }

\* ------------------------------------------------------------------------
\* Game: state of the session and the key handlers of game_loop
\* ------------------------------------------------------------------------

VARIABLES
    state,        \* Game.state: the live SudokuState
    undo_stack,   \* Game.undo_stack: sequence of SudokuState snapshots
    cursor,       \* UI.cursor: <<row, col>>
    show_hints,   \* settings['show_hints']
    status_msg,   \* UI.status_msg
    drawn,        \* what the new_game call of the current game drew
    trail,        \* history: the live state as it was before each committed
                  \* edit of the current game that no undo has taken back
    probe         \* one call of valid, solve, unique_solution or
                  \* generate_sudoku: its arguments and what it returned

vars == <<state, undo_stack, cursor, show_hints, status_msg, drawn, trail,
          probe>>

\* a call record: op names the function called ("" before the call), args
\* its arguments after the grid, ok what it returned and out the grid as
\* the call left it
Probe(grid, op, args, ok, out) ==
    [grid |-> grid, op |-> op, args |-> args, ok |-> ok, out |-> out]
NoProbe == Probe(EmptyGrid, "", <<>>, FALSE, EmptyGrid)

UndoCap == 200

\* UI.status_msg values: the text, and for a hint the digit and the 1-based
\* coordinates formatted into it
Msg(text, n, r, c) == [text |-> text, n |-> n, r |-> r, c |-> c]
NoMsg == Msg("", 0, 0, 0)
MsgDisabled == Msg("Hints are disabled in Settings.", 0, 0, 0)
MsgNoHints == Msg("No hints: puzzle already complete!", 0, 0, 0)
MsgHint(n, r, c) == Msg("Hint: try n at (r,c)", n, r + 1, c + 1)

\* Game.__init__: state = new_game(), undo_stack = [], UI cursor (0, 0) and
\* empty status message; show_hints as load_settings read it
Init ==
    /\ \E g \in Games : state = g.game /\ drawn = g.drawn
    /\ undo_stack = <<>>
    /\ trail = <<>>
    /\ probe = NoProbe
    /\ cursor = <<0, 0>>
    /\ show_hints \in BOOLEAN
    /\ status_msg = NoMsg

\* variant of push_undo that puts the clone at the front of the stack
push_undo_front(stack, st) ==
    LET pushed == <<clone(st)>> \o stack
    IN  IF Len(pushed) > UndoCap THEN Tail(pushed) ELSE pushed

\* Game.push_undo: the stack after appending a clone of st, dropping the
\* oldest entry when the length exceeds 200
push_undo(stack, st) ==
    LET pushed == Append(stack, clone(st))
    IN  IF Len(pushed) > UndoCap THEN Tail(pushed) ELSE pushed

CurCell == state.grid[cursor[1]][cursor[2]]

\* variant of Edited that does not count the move
Edited_uncounted(v, p) ==
    [state EXCEPT !.grid[cursor[1]][cursor[2]] = Cell(v, @.fixed, p)]

\* state after writing value v and pencil p into the cursor's cell and
\* counting the move
Edited(v, p) ==
    [state EXCEPT !.grid[cursor[1]][cursor[2]] = Cell(v, @.fixed, p),
                  !.moves = @ + 1]

\* a committed edit: "self.push_undo(); cell.value = v; cell.pencil = p;
\* self.state.moves += 1"
Commit(v, p) ==
    /\ undo_stack' = push_undo(undo_stack, state)
    /\ state' = Edited(v, p)
    /\ trail' = Append(trail, state)

\* arrow keys
KeyLeft ==
    /\ cursor' = <<cursor[1], (cursor[2] - 1) % N9>>
    /\ UNCHANGED <<state, undo_stack, show_hints, status_msg, drawn, trail,
                 probe>>
KeyRight ==
    /\ cursor' = <<cursor[1], (cursor[2] + 1) % N9>>
    /\ UNCHANGED <<state, undo_stack, show_hints, status_msg, drawn, trail,
                 probe>>
KeyUp ==
    /\ cursor' = <<(cursor[1] - 1) % N9, cursor[2]>>
    /\ UNCHANGED <<state, undo_stack, show_hints, status_msg, drawn, trail,
                 probe>>
KeyDown ==
    /\ cursor' = <<(cursor[1] + 1) % N9, cursor[2]>>
    /\ UNCHANGED <<state, undo_stack, show_hints, status_msg, drawn, trail,
                 probe>>

\* variant of the 'n' key that keeps the undo stack of the previous game
NewGame_keeps_history ==
    /\ \E g \in Games : state' = g.game /\ drawn' = g.drawn
    /\ trail' = <<>>
    /\ UNCHANGED <<undo_stack, cursor, show_hints, status_msg, probe>>

\* 'n' / 'N': state = new_game(); undo_stack.clear()
NewGame ==
    /\ \E g \in Games : state' = g.game /\ drawn' = g.drawn
    /\ undo_stack' = <<>>
    /\ trail' = <<>>
    /\ UNCHANGED <<cursor, show_hints, status_msg, probe>>

\* variant of Game.undo that, finding no snapshot, starts the puzzle over
Undo_restart ==
    /\ IF undo_stack # <<>>
       THEN /\ state' = undo_stack[Len(undo_stack)]
            /\ undo_stack' = SubSeq(undo_stack, 1, Len(undo_stack) - 1)
            /\ trail' = SubSeq(trail, 1, Len(trail) - 1)
       ELSE /\ state' = [state EXCEPT
                           !.grid = [r \in Idx |-> [c \in Idx |->
                               Cell(state.puzzle[r][c], state.puzzle[r][c] # 0, 0)]],
                           !.moves = 0]
            /\ UNCHANGED <<undo_stack, trail>>
    /\ UNCHANGED <<cursor, show_hints, status_msg, drawn, probe>>

\* 'u' / 'U': Game.undo
Undo ==
    /\ IF undo_stack # <<>>
       THEN /\ state' = undo_stack[Len(undo_stack)]
            /\ undo_stack' = SubSeq(undo_stack, 1, Len(undo_stack) - 1)
            /\ trail' = SubSeq(trail, 1, Len(trail) - 1)
       ELSE UNCHANGED <<state, undo_stack, trail>>
    /\ UNCHANGED <<cursor, show_hints, status_msg, drawn, probe>>

\* variant of available_cells that takes every cell
available_cells_any == Idx \X Idx

\* variant of available_cells that takes every cell the player may edit
available_cells_editable ==
    { rc \in Idx \X Idx : ~state.grid[rc[1]][rc[2]].fixed }

\* the cells Game.hint collects: not fixed and empty
available_cells ==
    { rc \in Idx \X Idx :
        /\ ~state.grid[rc[1]][rc[2]].fixed
        /\ state.grid[rc[1]][rc[2]].value = 0 }

\* variant of Hinted that reads the digit from the puzzle
Hinted_from_puzzle(rc) ==
    [state EXCEPT !.grid[rc[1]][rc[2]].pencil = state.puzzle[rc[1]][rc[2]]]

\* variant of Hinted that writes the digit into the cell as well
Hinted_filled(rc) ==
    [state EXCEPT !.grid[rc[1]][rc[2]] =
        Cell(state.solution[rc[1]][rc[2]], @.fixed, state.solution[rc[1]][rc[2]])]

\* the cell random.choice picked gets the solution's digit as its pencil
Hinted(rc) ==
    [state EXCEPT !.grid[rc[1]][rc[2]].pencil = state.solution[rc[1]][rc[2]]]

\* 'h' / 'H': Game.hint
Hint ==
    /\ IF ~show_hints
       THEN /\ status_msg' = MsgDisabled
            /\ UNCHANGED <<state, cursor>>
       ELSE IF available_cells # {}
            THEN \E rc \in available_cells :
                   /\ state' = Hinted(rc)
                   /\ status_msg' =
                          MsgHint(state.solution[rc[1]][rc[2]], rc[1], rc[2])
                   /\ cursor' = rc
            ELSE /\ status_msg' = MsgNoHints
                 /\ UNCHANGED <<state, cursor>>
    /\ UNCHANGED <<undo_stack, show_hints, drawn, trail,
                 probe>>

\* Enter / Space: fill the cell with its pencil value if present
CommitPencil ==
    /\ IF ~CurCell.fixed /\ CurCell.pencil # 0
       THEN Commit(CurCell.pencil, 0)
       ELSE UNCHANGED <<state, undo_stack, trail>>
    /\ UNCHANGED <<cursor, show_hints, status_msg, drawn, probe>>

\* Backspace / '0': clear the cell
Clear ==
    /\ IF ~CurCell.fixed /\ CurCell.value # 0
       THEN Commit(0, 0)
       ELSE UNCHANGED <<state, undo_stack, trail>>
    /\ UNCHANGED <<cursor, show_hints, status_msg, drawn, probe>>

\* variant of the digit keys that leaves the cell's pencil mark in place
PlaceDigit_keeps_pencil(v) ==
    /\ IF ~CurCell.fixed
       THEN Commit(v, CurCell.pencil)
       ELSE UNCHANGED <<state, undo_stack, trail>>
    /\ UNCHANGED <<cursor, show_hints, status_msg, drawn, probe>>

\* variant of the digit keys that writes into fixed cells too
PlaceDigit_anywhere(v) ==
    /\ Commit(v, 0)
    /\ UNCHANGED <<cursor, show_hints, status_msg, drawn, probe>>

\* '1'..'9': place digit v
PlaceDigit(v) ==
    /\ IF ~CurCell.fixed
       THEN Commit(v, 0)
       ELSE UNCHANGED <<state, undo_stack, trail>>
    /\ UNCHANGED <<cursor, show_hints, status_msg, drawn, probe>>

\* the keys explored: the cursor stays over ReachRows x ReachCols, which
\* random.choice in Game.hint keeps to as well, and a game takes at most
\* MaxMoves committed edits
InReach == cursor'[1] \in ReachRows /\ cursor'[2] \in ReachCols
InBudget == state'.moves <= MaxMoves

Next ==
    \/ KeyLeft /\ InReach
    \/ KeyRight /\ InReach
    \/ KeyUp /\ InReach
    \/ KeyDown /\ InReach
    \/ NewGame
    \/ Undo
    \/ Hint /\ InReach
    \/ CommitPencil /\ InBudget
    \/ Clear /\ InBudget
    \/ \E v \in DigitKeys : PlaceDigit(v) /\ InBudget

Spec == Init /\ [][Next]_vars

\* ------------------------------------------------------------------------
\* Long runs of edits and undos on one cell, past the capacity of the stack
\* ------------------------------------------------------------------------

\* a fresh game in which (0, 0) is empty and (0, 1) is a clue, the cursor
\* on (0, 0)
InitDeep ==
    /\ Init
    /\ show_hints
    /\ state.puzzle[0][0] = 0
    /\ state.puzzle[0][1] # 0

NextDeep ==
    \/ PlaceDigit(1) /\ state'.moves <= UndoCap + DeepExtra
    \/ Undo

SpecDeep == InitDeep /\ [][NextDeep]_vars

\* ------------------------------------------------------------------------
\* A game played to its end
\* ------------------------------------------------------------------------

\* committed edits explored beyond the ones that fill the empty cells
FillExtra == 1

\* the cursor's cell holds a digit
CellDone == CurCell.value # 0
\* before the first edit of the game, and when no cell is empty
AtEnds ==
    \/ state.moves = 0
    \/ \A r \in Idx : \A c \in Idx : state.grid[r][c].value # 0
\* digit keys pressed then: DigitKeys and the solution's digit
EndKeys == DigitKeys \cup {state.solution[cursor[1]][cursor[2]]}
FillBudget == state'.moves <= N9 * N9 - DefaultClues + FillExtra

\* the digit key of the solution's digit, on an empty cell
FillCell ==
    /\ ~CurCell.fixed
    /\ CurCell.value = 0
    /\ \E v \in 1..N9 :
          v = state.solution[cursor[1]][cursor[2]] /\ PlaceDigit(v)

\* no key has yet been pressed in the last row
LastRowOpen == state.grid[N9 - 1][0].value = 0

\* the keys explored: from (0, 0) the cursor goes up, round to the last row
\* (the arrow keys wrap), and walks the rows in turn from the last to row
\* 0, to the right on rows 0, 2, .. and to the left on rows 1, 3, ..,
\* leaving a cell once it holds a digit; an empty cell gets the solution's
\* digit.  Before the first edit and once the grid is full the other keys
\* are pressed as well, a hint taking the cursor's cell when it has a
\* choice.
NextFill ==
    \/ FillCell
    \/ KeyUp /\ CellDone /\ cursor = <<0, 0>> /\ LastRowOpen
    \/ KeyRight /\ CellDone /\ cursor[1] % 2 = 0 /\ cursor[2] < N9 - 1
                /\ (cursor[1] = 0 => ~LastRowOpen)
    \/ KeyLeft /\ CellDone /\ cursor[1] % 2 = 1 /\ cursor[2] > 0
    \/ KeyUp /\ CellDone /\ cursor[1] > 0
             /\ cursor[2] = (IF cursor[1] % 2 = 0 THEN N9 - 1 ELSE 0)
    \/ AtEnds /\ Hint /\ cursor' = cursor
    \/ AtEnds /\ Undo
    \/ AtEnds /\ CommitPencil /\ FillBudget
    \/ AtEnds /\ Clear /\ FillBudget
    \/ AtEnds /\ \E v \in EndKeys : PlaceDigit(v) /\ FillBudget

SpecFill == Init /\ [][NextFill]_vars

\* ------------------------------------------------------------------------
\* Calls of valid, solve and unique_solution on grids given to them
\* ------------------------------------------------------------------------

\* a solved grid to cut the input grids from, written out row by row
SolvedRows ==
    << <<1, 2, 3, 4, 5, 6, 7, 8, 9>>,
       <<4, 5, 6, 7, 8, 9, 1, 2, 3>>,
       <<7, 8, 9, 1, 2, 3, 4, 5, 6>>,
       <<2, 1, 4, 3, 6, 5, 8, 9, 7>>,
       <<3, 6, 5, 8, 9, 7, 2, 1, 4>>,
       <<8, 9, 7, 2, 1, 4, 3, 6, 5>>,
       <<5, 3, 1, 6, 4, 2, 9, 7, 8>>,
       <<6, 4, 2, 9, 7, 8, 5, 3, 1>>,
       <<9, 7, 8, 5, 3, 1, 6, 4, 2>> >>
SolvedGrid == [r \in Idx |-> [c \in Idx |-> SolvedRows[r + 1][c + 1]]]

\* cells emptied in the input grids: any of the four cells holding
\* 1 2 / 2 1 on rows 0 and 3 (all four empty leave two completions), or
\* the four cells holding 3 4 / 4 3 on the same rows, which lie in four
\* different boxes (one completion)
ProbeRectA == { <<0, 0>>, <<0, 1>>, <<3, 0>>, <<3, 1>> }
ProbeRectB == { <<0, 2>>, <<0, 3>>, <<3, 2>>, <<3, 3>> }
ProbeBlanks == (SUBSET ProbeRectA) \cup {ProbeRectB}
\* a digit written over one cell of the input grid, or none
ProbePokes ==
    {<<>>} \cup { <<rc, d>> : rc \in { <<3, 0>>, <<1, 1>> }, d \in 1..3 }
\* the input grid: SolvedGrid with blanks emptied, then poke written
ProbeGrid(blanks, poke) ==
    [r \in Idx |-> [c \in Idx |->
        IF poke # <<>> /\ poke[1] = <<r, c>> THEN poke[2]
        ELSE IF <<r, c>> \in blanks THEN 0
        ELSE SolvedGrid[r][c]]]
\* the cells valid is asked about
ProbeAt == { <<0, 0>>, <<0, 1>>, <<3, 0>>, <<4, 4>> }

\* a grid is at hand and no function has been called on it yet
InitProbe ==
    /\ state = SudokuState
    /\ drawn = NoDraw
    /\ undo_stack = <<>>
    /\ trail = <<>>
    /\ cursor = <<0, 0>>
    /\ show_hints = TRUE
    /\ status_msg = NoMsg
    /\ \E blanks \in ProbeBlanks : \E poke \in ProbePokes :
         probe = Probe(ProbeGrid(blanks, poke), "", <<>>, FALSE, EmptyGrid)

\* valid(grid, r, c, n)
CallValid ==
    /\ probe.op = ""
    /\ \E rc \in ProbeAt : \E n \in 1..N9 :
         probe' = Probe(probe.grid, "valid", <<rc[1], rc[2], n>>,
                        valid(probe.grid, rc[1], rc[2], n), probe.grid)
    /\ UNCHANGED <<state, undo_stack, cursor, show_hints, status_msg, drawn,
                   trail>>

\* solve(grid, fill): the return value and the grid as solve leaves it
CallSolve ==
    /\ probe.op = ""
    /\ \E fill \in BOOLEAN : \E seed \in 0..MaxSeed :
         /\ fill \/ seed = 0
         /\ LET res == solve(probe.grid, fill, seed)
            IN  probe' = Probe(probe.grid, "solve", <<fill, seed>>,
                               res.ok, res.grid)
    /\ UNCHANGED <<state, undo_stack, cursor, show_hints, status_msg, drawn,
                   trail>>

\* unique_solution(grid): the return value and the grid as dfs leaves it
CallUniqueSolution ==
    /\ probe.op = ""
    /\ probe' = Probe(probe.grid, "unique_solution", <<>>,
                      unique_solution(probe.grid), dfs(probe.grid).grid)
    /\ UNCHANGED <<state, undo_stack, cursor, show_hints, status_msg, drawn,
                   trail>>

NextProbe == CallValid \/ CallSolve \/ CallUniqueSolution

SpecProbe == InitProbe /\ [][NextProbe]_vars

\* ------------------------------------------------------------------------
\* Calls of generate_sudoku
\* ------------------------------------------------------------------------

\* shuffle outcomes explored: every order of GenCells first.  In the grid
\* of seed 0 the first four cells hold 1 2 / 2 1 on rows 0 and 3, so that
\* emptying all four leaves two completions.
GenCells == { <<0, 0>>, <<0, 1>>, <<3, 0>>, <<3, 1>>, <<8, 8>> }
GenPrefixes ==
    { p \in [1..Cardinality(GenCells) -> GenCells] :
        \A i, j \in 1..Cardinality(GenCells) : p[i] = p[j] => i = j }
\* num_clues explored: from one removal more than GenCells holds to none
GenClues == (N9 * N9 - Cardinality(GenCells) - 1)..(N9 * N9)
\* the calls explored: any seed, shuffle and num_clues of the above, and
\* the calls new_game() makes for the session's games
GenCalls ==
    { <<seed, p, n>> : seed \in 0..MaxSeed, p \in GenPrefixes, n \in GenClues }
        \cup { <<SessionSeed, p, DefaultClues>> : p \in SessionPrefixes }

\* no call has been made yet
InitGen ==
    /\ state = SudokuState
    /\ drawn = NoDraw
    /\ undo_stack = <<>>
    /\ trail = <<>>
    /\ probe = NoProbe
    /\ cursor = <<0, 0>>
    /\ show_hints = TRUE
    /\ status_msg = NoMsg

\* puzzle, sol = generate_sudoku(num_clues): the record keeps the puzzle
\* as its grid, the random outcomes and num_clues as args, and sol as out
CallGenerate ==
    /\ probe.op = ""
    /\ \E call \in GenCalls :
         LET ps == generate_sudoku(call[1], Shuffled(call[2]), call[3])
         IN  probe' = Probe(ps.puzzle, "generate_sudoku", call, TRUE, ps.sol)
    /\ UNCHANGED <<state, undo_stack, cursor, show_hints, status_msg, drawn,
                   trail>>

NextGen == CallGenerate

SpecGen == InitGen /\ [][NextGen]_vars

\* ------------------------------------------------------------------------
\* Properties
\* ------------------------------------------------------------------------

\* C1 -- undo round trip.  An undo that finds a snapshot puts the live
\* state back to what it was before the latest committed edit not yet taken
\* back (trail holds those states, recorded when the edits were made): one
\* edit followed by one undo, and k edits followed by k undos, end in the
\* state they started from, pencil marks and move counter included.
UndoRoundTrip ==
    [][ (Undo /\ undo_stack # <<>>) =>
            /\ trail # <<>>
            /\ state' = trail[Len(trail)]
            /\ Len(undo_stack') = Len(undo_stack) - 1 ]_vars

\* two committed edits have been made, the snapshots of the states before
\* them differ from each other and from the live state, and two undos are
\* due to restore them
UndoRoundTripWitness ==
    /\ Len(undo_stack) = 2
    /\ undo_stack = trail
    /\ undo_stack[2] # state
    /\ undo_stack[1] # undo_stack[2]
    /\ \E r \in Idx : \E c \in Idx : undo_stack[2].grid[r][c].pencil # 0

\* C2 -- fixed cells are immutable.  With the cursor on a fixed cell, a
\* digit key, a clear and a commit of the pencil mark change no cell, do not
\* count a move and push nothing on the undo history.
FixedCellsImmutable ==
    [][ (CurCell.fixed /\ (CommitPencil \/ Clear \/ \E v \in 1..N9 : PlaceDigit(v)))
            => UNCHANGED <<state, undo_stack>> ]_vars

\* the cursor is on a fixed cell of a game in which edits were made
FixedCellsImmutableWitness ==
    /\ CurCell.fixed
    /\ CurCell.value = state.puzzle[cursor[1]][cursor[2]]
    /\ state.moves = Len(undo_stack)
    /\ state.moves > 0

\* C3 as stated -- once is_complete holds it keeps holding under place,
\* clear, commit of the pencil mark, hint and undo.
SolvedStaysSolved ==
    [][ (is_complete(state)
           /\ (Hint \/ CommitPencil \/ Clear \/ Undo
                 \/ \E v \in 1..N9 : PlaceDigit(v)))
            => is_complete(state') ]_vars

\* C3 -- what holds instead.  In a solved session a hint and a commit of
\* the pencil mark change neither the state nor the undo history, and a
\* digit key or a clear on a fixed cell changes nothing.  On a cell that is
\* not fixed a digit key is still applied (snapshot pushed, move counted)
\* and leaves the session solved exactly when the digit is the solution's;
\* a clear is still applied and leaves it unsolved.  An undo on an empty
\* history changes nothing; otherwise it is still applied, the live state
\* becoming the latest snapshot, so that the session stays solved exactly
\* when that snapshot was solved (the edit taken back was made on a grid
\* already solved).
SolvedKeptByHarmlessKeys ==
    [][ is_complete(state) =>
          /\ (Hint \/ CommitPencil) => UNCHANGED <<state, undo_stack>>
          /\ (CurCell.fixed /\ (Clear \/ \E v \in 1..N9 : PlaceDigit(v)))
                => UNCHANGED <<state, undo_stack>>
          /\ \A v \in 1..N9 :
                (PlaceDigit(v) /\ ~CurCell.fixed) =>
                    /\ state'.moves = state.moves + 1
                    /\ undo_stack' = Append(undo_stack, state)
                    /\ state'.grid[cursor[1]][cursor[2]].value = v
                    /\ is_complete(state')
                          <=> v = state.solution[cursor[1]][cursor[2]]
          /\ (Clear /\ ~CurCell.fixed) =>
                /\ state'.moves = state.moves + 1
                /\ undo_stack' = Append(undo_stack, state)
                /\ state'.grid[cursor[1]][cursor[2]].value = 0
                /\ ~is_complete(state')
          /\ (Undo /\ undo_stack = <<>>) => UNCHANGED <<state, undo_stack>>
          /\ (Undo /\ undo_stack # <<>>) =>
                /\ state' = undo_stack[Len(undo_stack)]
                /\ Len(undo_stack') = Len(undo_stack) - 1
                /\ is_complete(state')
                      <=> is_complete(undo_stack[Len(undo_stack)]) ]_vars

\* a solved session in which the latest edit was made when it was already
\* solved and the edit before it when it was not, so that one undo leaves
\* it solved and a second does not; a hint has since found nothing to offer
SolvedKeptWitness ==
    /\ is_complete(state)
    /\ Len(undo_stack) >= 2
    /\ is_complete(undo_stack[Len(undo_stack)])
    /\ ~is_complete(undo_stack[Len(undo_stack) - 1])
    /\ ~CurCell.fixed
    /\ status_msg = MsgNoHints

\* C4 -- the undo history holds at most UndoCap snapshots, and they are
\* the states before the latest edits not taken back.  After
\* UndoCap + DeepExtra committed edits it holds exactly UndoCap, the
\* DeepExtra oldest having been dropped; when the undos have used them up,
\* the live state is the one the edit number DeepExtra left, and a further
\* undo changes nothing.
UndoBound ==
    /\ [](/\ Len(undo_stack) <= UndoCap
          /\ Len(undo_stack) <= Len(trail)
          /\ undo_stack = SubSeq(trail, Len(trail) - Len(undo_stack) + 1,
                                 Len(trail))
          /\ (state.moves = UndoCap + DeepExtra =>
                /\ Len(undo_stack) = UndoCap
                /\ Len(trail) = UndoCap + DeepExtra)
          /\ ((undo_stack = <<>> /\ Len(trail) = DeepExtra) =>
                state = [trail[DeepExtra] EXCEPT
                            !.grid[0][0] = Cell(1, FALSE, 0),
                            !.moves = DeepExtra]))
    /\ [][ (Undo /\ undo_stack = <<>> /\ Len(trail) = DeepExtra)
              => UNCHANGED <<state, undo_stack>> ]_vars

\* UndoCap + DeepExtra edits have been made: the history is full and the
\* states before the first DeepExtra edits are no longer in it
UndoBoundWitness ==
    /\ state.moves = UndoCap + DeepExtra
    /\ Len(undo_stack) = UndoCap
    /\ Len(trail) = UndoCap + DeepExtra
    /\ undo_stack[1] = trail[DeepExtra + 1]

\* C5 -- a generated puzzle has exactly one completion, and it is the
\* solution paired with it: unique_solution holds of the puzzle, the
\* solution is a full grid every cell of which is valid, and it agrees with
\* the puzzle on every clue.
GeneratedPuzzleUnique ==
    probe.op = "generate_sudoku" =>
        /\ unique_solution(probe.grid)
        /\ \A r \in Idx : \A c \in Idx :
              /\ probe.out[r][c] \in 1..N9
              /\ probe.grid[r][c] \in {0, probe.out[r][c]}
              /\ valid([probe.out EXCEPT ![r][c] = 0], r, c, probe.out[r][c])

\* a call that gave one removal up: of the four cells holding 1 2 / 2 1 in
\* the grid of seed 0, three are empty and one was put back, and the
\* removal went on to the next cell
GeneratedPuzzleUniqueWitness ==
    /\ probe.op = "generate_sudoku"
    /\ probe.args[1] = 0
    /\ Cardinality({ rc \in { <<0, 0>>, <<0, 1>>, <<3, 0>>, <<3, 1>> } :
                       probe.grid[rc[1]][rc[2]] = 0 }) = 3
    /\ probe.grid[8][8] = 0

\* C6 -- the deterministic solver (candidates 1..9 in order) run on a
\* generated puzzle returns true and leaves the grid equal to the solution
\* paired with the puzzle.
SolverFindsSolution ==
    probe.op = "generate_sudoku" =>
        LET res == solve(probe.grid, FALSE, 0)
        IN  res.ok /\ res.grid = probe.out

\* the puzzle of a session's game, generated with the default num_clues:
\* the solver has N9 * N9 - DefaultClues empty cells to fill
SolverFindsSolutionWitness ==
    /\ probe.op = "generate_sudoku"
    /\ probe.args[3] = DefaultClues
    /\ Cardinality({ rc \in Idx \X Idx : probe.grid[rc[1]][rc[2]] = 0 })
          = N9 * N9 - DefaultClues
    /\ solve(probe.grid, FALSE, 0).ok

\* C7 -- is_complete holds exactly when no cell is empty and the grid of
\* values is the solution.  The grid filled cell by cell with the solution
\* is complete, and changing one cell of a complete grid to another digit
\* makes it incomplete.
CompletionPredicate ==
    /\ is_complete(state) <=>
          /\ \A r \in Idx : \A c \in Idx : state.grid[r][c].value # 0
          /\ [r \in Idx |-> [c \in Idx |-> state.grid[r][c].value]]
                = state.solution
    /\ is_complete([state EXCEPT !.grid = [r \in Idx |-> [c \in Idx |->
            Cell(state.solution[r][c], state.grid[r][c].fixed, 0)]]])
    /\ is_complete(state) =>
          \A r \in Idx : \A c \in Idx :
              \A d \in (1..N9) \ {state.solution[r][c]} :
                  ~is_complete([state EXCEPT !.grid[r][c].value = d])

\* a session solved by play: the state before the latest edit was not
\* complete
CompletionPredicateWitness ==
    /\ is_complete(state)
    /\ state.moves > 0
    /\ ~is_complete(undo_stack[Len(undo_stack)])

\* C8 -- a hint that finds an empty cell picks a cell that is not fixed and
\* is empty, and sets its pencil mark to the solution's digit for it;
\* committing the pencil mark then sets the cell's value to that digit and
\* clears the mark.
HintCorrect ==
    [][ /\ (Hint /\ show_hints /\ available_cells # {}) =>
              /\ cursor' \in available_cells
              /\ state'.grid[cursor'[1]][cursor'[2]].pencil
                    = state.solution[cursor'[1]][cursor'[2]]
              /\ state'.grid[cursor'[1]][cursor'[2]].pencil \in 1..N9
              /\ status_msg' = MsgHint(state.solution[cursor'[1]][cursor'[2]],
                                       cursor'[1], cursor'[2])
        /\ (CommitPencil /\ ~CurCell.fixed /\ CurCell.pencil # 0) =>
              /\ state'.grid[cursor[1]][cursor[2]].value
                    = state.solution[cursor[1]][cursor[2]]
              /\ state'.grid[cursor[1]][cursor[2]].pencil = 0 ]_vars

\* a hint was given for the cursor's cell and its pencil mark committed: the
\* cell holds the solution's digit, and the snapshot taken by the commit
\* shows the cell empty with that digit as its pencil mark
HintCorrectWitness ==
    /\ status_msg = MsgHint(state.solution[cursor[1]][cursor[2]],
                            cursor[1], cursor[2])
    /\ CurCell.value = state.solution[cursor[1]][cursor[2]]
    /\ CurCell.pencil = 0
    /\ undo_stack # <<>>
    /\ undo_stack[Len(undo_stack)].grid[cursor[1]][cursor[2]]
          = Cell(0, FALSE, state.solution[cursor[1]][cursor[2]])

\* C9 -- a hint changes no cell's value or fixed flag, does not change the
\* move counter, leaves the undo history as it is, and changes the pencil
\* mark of at most one cell.
HintInformational ==
    [][ Hint =>
          /\ \A r \in Idx : \A c \in Idx :
                /\ state'.grid[r][c].value = state.grid[r][c].value
                /\ state'.grid[r][c].fixed = state.grid[r][c].fixed
          /\ state'.moves = state.moves
          /\ undo_stack' = undo_stack
          /\ Cardinality({ rc \in Idx \X Idx :
                             state'.grid[rc[1]][rc[2]].pencil
                                # state.grid[rc[1]][rc[2]].pencil }) <= 1 ]_vars

\* a hint was given after an edit: the cursor's cell is empty and carries a
\* pencil mark the latest snapshot does not have
HintInformationalWitness ==
    /\ status_msg.n # 0
    /\ CurCell.value = 0
    /\ CurCell.pencil = status_msg.n
    /\ state.moves > 0
    /\ state.moves = Len(undo_stack)
    /\ undo_stack[Len(undo_stack)].grid[cursor[1]][cursor[2]].pencil = 0

\* C10 -- an undo on an empty history, a hint while hints are disabled and
\* a hint with no empty cell to offer leave the grid, the move counter and
\* the undo history unchanged; the hint sets the status message that says
\* which of the two it was.
NoOpsOnInvalidTargets ==
    [][ /\ (Undo /\ undo_stack = <<>>) => UNCHANGED <<state, undo_stack>>
        /\ (Hint /\ ~show_hints) =>
              /\ UNCHANGED <<state, undo_stack>>
              /\ status_msg' = MsgDisabled
        /\ (Hint /\ show_hints /\ available_cells = {}) =>
              /\ UNCHANGED <<state, undo_stack>>
              /\ status_msg' = MsgNoHints ]_vars

\* every cell has been filled, a hint has found no cell to offer and said
\* so, and the undo history still holds the edits
NoOpsOnInvalidTargetsWitness ==
    /\ show_hints
    /\ available_cells = {}
    /\ status_msg = MsgNoHints
    /\ state.moves = Len(undo_stack)
    /\ state.moves >= N9 * N9 - DefaultClues

\* C11 as stated -- within one game the move counter never decreases
\* under place, clear, commit of the pencil mark, hint and undo.
MovesMonotonic ==
    [][ (Hint \/ CommitPencil \/ Clear \/ Undo
            \/ \E v \in DigitKeys : PlaceDigit(v))
            => state'.moves >= state.moves ]_vars

\* C11 -- what holds instead.  A hint leaves the move counter as it is;
\* a digit key on a cell that is not fixed, a clear of a cell that is not
\* fixed and not empty, and a commit on a cell that is not fixed and has a
\* pencil mark add exactly one to it, and on other cells they leave it as
\* it is; an undo that finds a snapshot takes exactly one off it.
MovesCountEdits ==
    [][ /\ Hint => state'.moves = state.moves
        /\ \A v \in DigitKeys : PlaceDigit(v) =>
              state'.moves = state.moves + (IF ~CurCell.fixed THEN 1 ELSE 0)
        /\ Clear =>
              state'.moves = state.moves
                  + (IF ~CurCell.fixed /\ CurCell.value # 0 THEN 1 ELSE 0)
        /\ CommitPencil =>
              state'.moves = state.moves
                  + (IF ~CurCell.fixed /\ CurCell.pencil # 0 THEN 1 ELSE 0)
        /\ Undo =>
              state'.moves = state.moves
                  - (IF undo_stack # <<>> THEN 1 ELSE 0) ]_vars

\* an edit was made and counted, and the state before it, with the counter
\* one lower, is what the next undo brings back
MovesCountEditsWitness ==
    /\ state.moves = 2
    /\ Len(undo_stack) = 2
    /\ undo_stack[2].moves = 1
    /\ undo_stack[2].grid # state.grid

\* the game as new_game returned it under the draw of the current game
StartOf == (CHOOSE g \in Games : g.drawn = drawn).game

\* C12 -- throughout a game the fixed cells are the cells that were fixed
\* when the game started, and every fixed cell has no pencil mark and holds
\* the digit of the original puzzle.
FixedCellsKept ==
    \A r \in Idx : \A c \in Idx :
        /\ state.grid[r][c].fixed = StartOf.grid[r][c].fixed
        /\ state.grid[r][c].fixed =>
              /\ state.grid[r][c].pencil = 0
              /\ state.grid[r][c].value = StartOf.puzzle[r][c]
              /\ state.grid[r][c].value = StartOf.grid[r][c].value

\* edits and a hint have been made in a game with an empty cell left, and
\* the cursor has been moved to a fixed cell
FixedCellsKeptWitness ==
    /\ state.moves > 0
    /\ CurCell.fixed
    /\ \E r \in Idx : \E c \in Idx : state.grid[r][c].pencil # 0
    /\ state.grid # StartOf.grid

\* C16 -- the 'n' key replaces the session: right after it the undo
\* history is empty, the move counter is 0, no cell has a pencil mark, every
\* cell holds the digit of the new puzzle and is fixed exactly when that
\* digit is not 0.
NewGameReplaces ==
    [][ NewGame =>
          /\ undo_stack' = <<>>
          /\ state'.moves = 0
          /\ \A r \in Idx : \A c \in Idx :
                state'.grid[r][c] =
                    Cell(state'.puzzle[r][c], state'.puzzle[r][c] # 0, 0) ]_vars

\* a fresh game in which (0, 1) is fixed, while the status line still shows
\* the hint given for (0, 1) in the game before
NewGameReplacesWitness ==
    /\ status_msg = MsgHint(state.solution[0][1], 0, 1)
    /\ state.grid[0][1].fixed
    /\ state.moves = 0
    /\ undo_stack = <<>>

\* C18 -- every cell with a pencil mark is not fixed, is empty, and its
\* pencil mark is the solution's digit for the cell.
PencilInvariant ==
    \A r \in Idx : \A c \in Idx :
        state.grid[r][c].pencil # 0 =>
            /\ ~state.grid[r][c].fixed
            /\ state.grid[r][c].value = 0
            /\ state.grid[r][c].pencil = state.solution[r][c]

\* a cell was hinted, edited and emptied again, and a second hint has
\* given it its pencil mark back
PencilInvariantWitness ==
    /\ CurCell.pencil # 0
    /\ Len(undo_stack) = 2
    /\ undo_stack[1].grid[cursor[1]][cursor[2]].pencil # 0
    /\ undo_stack[2].grid[cursor[1]][cursor[2]].value # 0

\* C20 -- the move counter is the number of snapshots in the undo history
\* plus the number dropped from it since the game started (trail is longer
\* than undo_stack by that number), and the snapshots carry consecutive
\* move counters, the latest one less than the live counter.
MovesTrackUndoDepth ==
    LET evicted == Len(trail) - Len(undo_stack)
    IN  /\ evicted >= 0
        /\ state.moves = Len(undo_stack) + evicted
        /\ state.moves >= Len(undo_stack)
        /\ \A i \in 1..Len(undo_stack) :
              undo_stack[i].moves = state.moves - Len(undo_stack) + i - 1

\* the first snapshot has been dropped: the history is full and the move
\* counter is one more than its length
MovesTrackUndoDepthWitness ==
    /\ Len(undo_stack) = UndoCap
    /\ state.moves = UndoCap + 1
    /\ undo_stack[1].moves = 1

\* ---- the rules of the puzzle, stated apart from the code ----

\* all 81 positions
AllCells == Idx \X Idx

\* two different positions that share a row, a column or a 3x3 box
SameUnit(a, b) ==
    /\ a # b
    /\ \/ a[1] = b[1]
       \/ a[2] = b[2]
       \/ (a[1] \div 3 = b[1] \div 3 /\ a[2] \div 3 = b[2] \div 3)

\* n stands in a position other than rc that shares a unit with rc
OccursElsewhere(grid, rc, n) ==
    \E b \in AllCells : SameUnit(rc, b) /\ grid[b[1]][b[2]] = n

\* n stands in rc itself or in a position that shares a unit with rc
OccursInUnits(grid, rc, n) ==
    grid[rc[1]][rc[2]] = n \/ OccursElsewhere(grid, rc, n)

\* no digit of the grid stands twice in a row, a column or a box
NoConflict(grid) ==
    \A a \in AllCells :
        grid[a[1]][a[2]] # 0 => ~OccursElsewhere(grid, a, grid[a[1]][a[2]])

\* the empty positions of a grid
Blanks(grid) == { a \in AllCells : grid[a[1]][a[2]] = 0 }

\* the grid with its empty positions filled as f says
FillWith(grid, f) ==
    [r \in Idx |-> [c \in Idx |->
        IF grid[r][c] = 0 THEN f[<<r, c>>] ELSE grid[r][c]]]

\* the ways to fill the empty positions of a grid without a conflict, for a
\* grid whose own digits do not conflict
Completions(grid) ==
    { f \in [Blanks(grid) -> 1..N9] :
        \A z \in Blanks(grid) : ~OccursElsewhere(FillWith(grid, f), z, f[z]) }

\* C13 (as stated) -- valid(grid, r, c, n) is false exactly when n stands in
\* a position other than (r, c) in row r, column c or the box of (r, c).
ValidIffElsewhere ==
    probe.op = "valid" =>
        (~probe.ok <=>
            OccursElsewhere(probe.grid, <<probe.args[1], probe.args[2]>>,
                            probe.args[3]))

\* C13 (amended) -- valid(grid, r, c, n) is false exactly when n stands in
\* row r, column c or the box of (r, c), the position (r, c) itself
\* included; when (r, c) is empty that is exactly when n stands in another
\* position of these units.
ValidIffInUnits ==
    probe.op = "valid" =>
        LET rc == <<probe.args[1], probe.args[2]>>
            n == probe.args[3]
        IN  /\ ~probe.ok <=> OccursInUnits(probe.grid, rc, n)
            /\ probe.grid[rc[1]][rc[2]] = 0 =>
                  (~probe.ok <=> OccursElsewhere(probe.grid, rc, n))
            /\ probe.out = probe.grid

\* valid was asked about the digit the cell itself holds, which stands
\* nowhere else in its units, and said no
ValidIffInUnitsWitness ==
    /\ probe.op = "valid"
    /\ probe.grid[probe.args[1]][probe.args[2]] = probe.args[3]
    /\ ~OccursElsewhere(probe.grid, <<probe.args[1], probe.args[2]>>,
                        probe.args[3])
    /\ ~probe.ok

\* C14 -- on a grid whose digits do not conflict, unique_solution is true
\* exactly when the empty cells can be filled in exactly one way that keeps
\* every row, column and box free of repeats.
UniqueIffOneCompletion ==
    (probe.op = "unique_solution" /\ NoConflict(probe.grid)) =>
        (probe.ok <=> Cardinality(Completions(probe.grid)) = 1)

\* unique_solution said no to a grid without conflicts that cannot be
\* completed at all
UniqueIffOneCompletionWitness ==
    /\ probe.op = "unique_solution"
    /\ NoConflict(probe.grid)
    /\ Blanks(probe.grid) # {}
    /\ Completions(probe.grid) = {}
    /\ ~probe.ok

\* C15 -- the generated puzzle has 81 - removed non-empty cells, where
\* removed is the number of removals kept; removed is at most 81 - num_clues,
\* so the puzzle has at least num_clues clues; every non-empty puzzle cell
\* holds the solution's digit; the solution is the grid filled in step 1.
GeneratedClueCount ==
    probe.op = "generate_sudoku" =>
        LET num_clues == probe.args[3]
            removed == removed_count(probe.args[1], Shuffled(probe.args[2]),
                                     num_clues)
            clues == AllCells \ Blanks(probe.grid)
        IN  /\ Cardinality(clues) = N9 * N9 - removed
            /\ removed <= N9 * N9 - num_clues
            /\ Cardinality(clues) >= num_clues
            /\ \A a \in clues :
                  probe.grid[a[1]][a[2]] = probe.out[a[1]][a[2]]
            /\ probe.out = FilledGrid(probe.args[1])
            /\ Blanks(probe.out) = {}

\* a removal was put back and a later one kept: (8, 8) is empty, one cell
\* tried before it still holds its digit, and the clue count is the target
GeneratedClueCountWitness ==
    /\ probe.op = "generate_sudoku"
    /\ probe.args[3] < N9 * N9
    /\ Cardinality(AllCells \ Blanks(probe.grid)) = probe.args[3]
    /\ probe.grid[8][8] = 0
    /\ \E a \in GenCells \ { <<8, 8>> } : probe.grid[a[1]][a[2]] # 0

\* C17 -- when solve returns true on a grid whose digits do not conflict,
\* the grid it leaves has no empty cell, keeps every digit of the input, and
\* has no repeat in any row, column or box; in either candidate order.
SolveSound ==
    (probe.op = "solve" /\ probe.ok /\ NoConflict(probe.grid)) =>
        /\ Blanks(probe.out) = {}
        /\ \A a \in AllCells \ Blanks(probe.grid) :
              probe.out[a[1]][a[2]] = probe.grid[a[1]][a[2]]
        /\ NoConflict(probe.out)

\* solve with shuffled candidates filled four empty cells
SolveSoundWitness ==
    /\ probe.op = "solve"
    /\ probe.args[1]
    /\ probe.ok
    /\ NoConflict(probe.grid)
    /\ Cardinality(Blanks(probe.grid)) = 4
    /\ Blanks(probe.out) = {}

\* C19 -- when solve returns false the grid is as it was given, and
\* unique_solution always leaves the grid as it was given.
SearchRestoresGrid ==
    /\ (probe.op = "solve" /\ ~probe.ok) => probe.out = probe.grid
    /\ probe.op = "unique_solution" => probe.out = probe.grid

\* solve gave up on a grid after it had placed a digit in the first empty
\* cell
SearchRestoresGridWitness ==
    /\ probe.op = "solve"
    /\ ~probe.ok
    /\ HasEmpty(probe.grid)
    /\ LET k == FirstEmpty(probe.grid)
       IN  \E n \in 1..N9 : valid(probe.grid, RowOf(k), ColOf(k), n)
    /\ probe.out = probe.grid

====
